---- MODULE Spec2Model ----
(***************************************************************************)
(* Model of daydream's either / maybe / just containers and of the         *)
(* continue_either transformation pair (src/either_maybe_just.cpp).        *)
(*                                                                         *)
(* Values are records tagged by their C++ type family (field k).  An       *)
(* expression the compiler rejects inside the library evaluates to         *)
(* IllFormed; a sample function handed an argument it cannot take          *)
(* evaluates to Mismatch; reading a disengaged std::optional is undefined  *)
(* behaviour and is a choice between Abort and a garbage value.            *)
(***************************************************************************)
EXTENDS Integers, FiniteSets, Sequences, TLC

VARIABLES val, last, n

vars == <<val, last, n>>

(* ------------------------------ bounds -------------------------------- *)

MaxVal == 12

MaxSteps == 3

Vals == 10..MaxVal

GarbageVals == {0, MaxVal}

(* ------------------------------ values -------------------------------- *)

IntV(i) == [k |-> "int", v |-> i]

Null == [k |-> "nullptr"]

None == [k |-> "none"]

IllFormed == [k |-> "ill_formed"]

Mismatch == [k |-> "type_mismatch"]

Abort == [k |-> "abort"]

IsValue(x) == x.k \in {"int", "nullptr", "either", "maybe", "just"}

(* a disengaged std::optional<T>: val is declval of T and records the type only *)
nullopt(T) == [has |-> FALSE, val |-> T]

optional(x) == [has |-> TRUE, val |-> x]

RECURSIVE declval(_)

(* the stand-in for an unevaluated operand of the type of x *)
declval(x) ==
    CASE x.k = "int" -> IntV(0)
      [] x.k = "just" -> [k |-> "just", val |-> declval(x.val)]
      [] x.k = "maybe" -> [k |-> "maybe", val |-> nullopt(declval(x.val.val))]
      [] x.k = "either" ->
            [k |-> "either", left |-> nullopt(declval(x.left.val)),
             right |-> nullopt(declval(x.right.val))]
      [] OTHER -> x

(* either(L left, nullptr_t) of an either<L, R> *)
either_left(l, R) == [k |-> "either", left |-> optional(l), right |-> nullopt(declval(R))]

(* either(nullptr_t, R right) of an either<L, R> *)
either_right(L, r) == [k |-> "either", left |-> nullopt(declval(L)), right |-> optional(r)]

has_left(e) == e.left.has

has_right(e) == e.right.has

(* maybe<T>{} *)
maybe_empty(T) == [k |-> "maybe", val |-> nullopt(declval(T))]

maybe_of(x) == [k |-> "maybe", val |-> optional(x)]

maybe_bool(m) == m.val.has

just_of(x) == [k |-> "just", val |-> x]

is_monadic_v(x) == x.k \in {"either", "maybe", "just"}

(* what the storage of a disengaged std::optional<T> can hold *)
Garbage(T) == IF T.k = "int" THEN {IntV(g) : g \in GarbageVals} ELSE {T}

(* the outcomes of *opt on a std::optional *)
Deref(o) == IF o.has THEN {o.val} ELSE {Abort} \cup Garbage(o.val)

(* ------------------------- sample functions --------------------------- *)

LeftFns == {"identity", "inc", "toEither", "check10", "toJust"}

RightFns == {"identity", "dbl"}

Prim(name) == [t |-> "prim", name |-> name]

Prims == {Prim(f) : f \in LeftFns \cup RightFns}

(* arguments an arithmetic lambda accepts: int, maybe (operator bool), just (operator T) *)
Arith(x) == x.k \in {"int", "maybe"} \/ (x.k = "just" /\ x.val.k = "int")

ToInt(x) ==
    CASE x.k = "int" -> x.v
      [] x.k = "maybe" -> IF maybe_bool(x) THEN 1 ELSE 0
      [] x.k = "just" -> x.val.v

check10_always(x) == IF Arith(x) THEN maybe_of(x) ELSE Mismatch

(* check{[](const auto i) { return i > 10; }}: one evaluation of _pred per call *)
check10(x) ==
    IF Arith(x)
    THEN IF ToInt(x) > 10 THEN maybe_of(x) ELSE maybe_empty(x)
    ELSE Mismatch

ApplyPrim(name, x) ==
    IF ~IsValue(x) THEN x
    ELSE CASE name = "identity" -> x
           [] name = "inc" -> IF Arith(x) THEN IntV(ToInt(x) + 1) ELSE Mismatch
           [] name = "dbl" -> IF Arith(x) THEN IntV(ToInt(x) * 2) ELSE Mismatch
           [] name = "toEither" ->
                IF Arith(x)
                THEN IF ToInt(x) = 12 THEN either_left(IntV(14), IntV(0))
                     ELSE either_right(IntV(0), IntV(12))
                ELSE Mismatch
           [] name = "check10" -> check10(x)
           [] name = "toJust" -> IF Arith(x) THEN just_of(IntV(ToInt(x))) ELSE Mismatch

(* --------------------------- continue_either -------------------------- *)

continue_either(l, r) == [t |-> "cont", cls |-> "continue_either", left |-> l, right |-> r]

continue_left(f) == [t |-> "cont", cls |-> "continue_left", left |-> f, right |-> Prim("identity")]

continue_right(f) == [t |-> "cont", cls |-> "continue_right", left |-> Prim("identity"), right |-> f]

Chain(first, then) == [t |-> "chain", first |-> first, then |-> then]

RECURSIVE Call(_, _)

RECURSIVE ContApply(_, _)

(* calling any callable: a sample function, a composed lambda or a continuation *)
Call(f, x) ==
    CASE f.t = "prim" -> ApplyPrim(f.name, x)
      [] f.t = "chain" -> Call(f.then, Call(f.first, x))
      [] f.t = "cont" -> ContApply(f, x).res

Applied(res, nl, nr, rarg) == [res |-> res, nl |-> nl, nr |-> nr, rarg |-> rarg]

(* L and R are computed from both sides, whichever side is held *)
ContApplyEither(c, e) ==
    LET L == Call(c.left, e.left.val)
        R == Call(c.right, e.right.val)
    IN  IF ~IsValue(L) THEN Applied(L, 0, 0, None)
        ELSE IF ~IsValue(R) THEN Applied(R, 0, 0, None)
        ELSE IF has_left(e) THEN Applied(either_left(L, R), 1, 0, None)
        ELSE Applied(either_right(L, R), 0, 1, None)

(* Res{} of a Res that is an either or a just does not compile *)
ContApplyMaybe(c, m) ==
    LET Res == Call(c.left, m.val.val)
        sentinel == Call(c.right, Null)
    IN  IF ~IsValue(Res) THEN Applied(Res, 0, 0, None)
        ELSE IF ~IsValue(sentinel) THEN Applied(sentinel, 0, 0, None)
        ELSE IF is_monadic_v(Res)
        THEN IF Res.k # "maybe" THEN Applied(IllFormed, 0, 0, None)
             ELSE IF maybe_bool(m) THEN Applied(Res, 1, 0, None)
             ELSE Applied(declval(Res), 0, 1, Null)
        ELSE IF maybe_bool(m) THEN Applied(maybe_of(Res), 1, 0, None)
             ELSE Applied(maybe_empty(Res), 0, 1, Null)

ContApplyPlain(c, t) == Applied(Call(c.left, t), 1, 0, None)

ContApply(c, x) ==
    IF ~IsValue(x) THEN Applied(x, 0, 0, None)
    ELSE CASE x.k = "either" -> ContApplyEither(c, x)
           [] x.k = "maybe" -> ContApplyMaybe(c, x)
           [] OTHER -> ContApplyPlain(c, x)

(* a callable used as a chain stage, with the calls of its two sides *)
Invoke(f, x) ==
    IF f.t = "cont" THEN ContApply(f, x) ELSE Applied(Call(f, x), 0, 0, None)

ComposeCont(c, other) ==
    continue_either(Chain(c.left, other.left), Chain(c.right, other.right))

ComposeFunc(c, other) == continue_either(Chain(c.left, other), c.right)

(* overload resolution of continue_either::operator| *)
Compose(c, other) ==
    IF other.t = "cont" /\ other.cls = "continue_either"
    THEN ComposeCont(c, other)
    ELSE ComposeFunc(c, other)

BaseConts ==
    {continue_either(Prim(l), Prim(r)) : l \in LeftFns, r \in RightFns}
        \cup {continue_left(Prim(f)) : f \in LeftFns}
        \cup {continue_right(Prim(f)) : f \in RightFns}

Stages == Prims \cup BaseConts

(* ------------------------------ either -------------------------------- *)

either_pipe(e, cont) == Invoke(cont, e)

(* the results of either(const either<L2, R2>&) *)
either_convert(e) ==
    {IF l = Abort \/ r = Abort THEN Abort
     ELSE [k |-> "either", left |-> optional(l), right |-> optional(r)] :
        l \in Deref(e.left), r \in Deref(e.right)}

either_swap(e) == IllFormed

(* const L& left() const, const R& right() const *)
either_left_read(e) == Deref(e.left)

either_right_read(e) == Deref(e.right)

left_or(e, l) == IF e.left.has THEN e.left.val ELSE l

right_or(e, r) == IF e.right.has THEN e.right.val ELSE r

(* the return statement converts a std::optional<L> to L: there is no such conversion *)
OptionalToValue(o) == IllFormed

left_or_eval(e, func) ==
    [res |-> OptionalToValue(IF e.left.has THEN e.left ELSE optional(func)), nf |-> 0]

right_or_eval(e, func) ==
    [res |-> OptionalToValue(IF e.right.has THEN e.right ELSE optional(func)), nf |-> 0]

(* drop_right::operator(): left() is read only when has_left() *)
drop_right(e) ==
    IF has_left(e) THEN {maybe_of(l) : l \in Deref(e.left)} ELSE {maybe_empty(e.left.val)}

(* drop_left::operator(): right() is read only when has_right() *)
drop_left(e) ==
    IF has_right(e) THEN {maybe_of(r) : r \in Deref(e.right)} ELSE {maybe_empty(e.right.val)}

(* ------------------------------- maybe -------------------------------- *)

maybe_and_func(m, cont) ==
    LET Res == Call(cont, m.val.val)
        sides == IF maybe_bool(m) THEN Invoke(cont, m.val.val) ELSE Applied(None, 0, 0, None)
        calls == IF maybe_bool(m) THEN 1 ELSE 0
    IN  IF ~IsValue(Res) THEN [res |-> Res, nf |-> 0, nl |-> 0, nr |-> 0, rarg |-> None]
        ELSE IF is_monadic_v(Res)
        THEN IF Res.k # "maybe"
             THEN [res |-> IllFormed, nf |-> 0, nl |-> 0, nr |-> 0, rarg |-> None]
             ELSE [res |-> IF maybe_bool(m) THEN Res ELSE declval(Res),
                   nf |-> calls, nl |-> sides.nl, nr |-> sides.nr, rarg |-> sides.rarg]
        ELSE [res |-> IF maybe_bool(m) THEN maybe_of(Res) ELSE maybe_empty(Res),
              nf |-> calls, nl |-> sides.nl, nr |-> sides.nr, rarg |-> sides.rarg]

maybe_and_cont(m, cont) ==
    LET a == ContApply(cont, m)
    IN  [res |-> a.res, nf |-> IF IsValue(a.res) THEN 1 ELSE 0,
         nl |-> a.nl, nr |-> a.nr, rarg |-> a.rarg]

(* overload resolution of maybe::operator&& *)
maybe_and(m, cont) ==
    IF cont.t = "cont" /\ cont.cls = "continue_either"
    THEN maybe_and_cont(m, cont)
    ELSE maybe_and_func(m, cont)

maybe_pipe(m, func) == maybe_and(m, func)

maybe_deref(m) == Deref(m.val)

maybe_or_maybe(m, other) == IF m.val.has THEN m ELSE other

maybe_or_value(m, t) == IF m.val.has THEN m.val.val ELSE t

maybe_or_eval_eager(m, func) ==
    IF m.val.has THEN [res |-> m.val.val, nf |-> 1] ELSE [res |-> func, nf |-> 1]

maybe_or_eval(m, func) ==
    IF m.val.has THEN [res |-> m.val.val, nf |-> 0] ELSE [res |-> func, nf |-> 1]

(* -------------------------------- just -------------------------------- *)

just_pipe(j, cont) ==
    LET a == Invoke(cont, j.val)
    IN  [res |-> IF ~IsValue(a.res) THEN a.res
                 ELSE IF is_monadic_v(a.res) THEN a.res ELSE just_of(a.res),
         nf |-> 1, nl |-> a.nl, nr |-> a.nr, rarg |-> a.rarg]

just_deref(j) == j.val

(* the chaining operator | of whichever container x is *)
Pipe(x, f) ==
    CASE x.k = "either" -> either_pipe(x, f).res
      [] x.k = "maybe" -> maybe_pipe(x, f).res
      [] x.k = "just" -> just_pipe(x, f).res
      [] OTHER -> IF IsValue(x) THEN Mismatch ELSE x

(* ----------------------------- the machine ---------------------------- *)

Op(op, in, arg, out, nf, nl, nr, rarg) ==
    [op |-> op, in |-> in, arg |-> arg, out |-> out, alt |-> None,
     nf |-> nf, nl |-> nl, nr |-> nr, rarg |-> rarg]

Law(op, in, arg, lhs, rhs) ==
    [op |-> op, in |-> in, arg |-> arg, out |-> lhs, alt |-> rhs,
     nf |-> 0, nl |-> 0, nr |-> 0, rarg |-> None]

Init ==
    /\ val = None
    /\ last = Op("none", None, None, None, 0, 0, 0, None)
    /\ n = 0

Construct(op, x) ==
    /\ val' = x
    /\ last' = Op(op, None, None, x, 0, 0, 0, None)
    /\ n' = 0

MakeJust == \E v \in Vals : Construct("just", just_of(IntV(v)))

MakeMaybe == \E v \in Vals : Construct("maybe", maybe_of(IntV(v)))

MakeEmpty == Construct("maybe_empty", maybe_empty(IntV(0)))

MakeLeft == \E v \in Vals : Construct("either_left", either_left(IntV(v), IntV(0)))

MakeRight == \E v \in Vals : Construct("either_right", either_right(IntV(0), IntV(v)))

Step(op, arg, a) ==
    /\ n < MaxSteps
    /\ a.res # Mismatch
    /\ val' = a.res
    /\ last' = Op(op, val, arg, a.res, a.nf, a.nl, a.nr, a.rarg)
    /\ n' = n + 1

WithCalls(a, nf) == [res |-> a.res, nf |-> nf, nl |-> a.nl, nr |-> a.nr, rarg |-> a.rarg]

Plain(r, nf) == [res |-> r, nf |-> nf, nl |-> 0, nr |-> 0, rarg |-> None]

IsIntSide(o) == o.val.k = "int"

EitherPipe ==
    /\ val.k = "either"
    /\ \E c \in Stages : Step("either_pipe", c, WithCalls(either_pipe(val, c), 1))

EitherConvert ==
    /\ val.k = "either"
    /\ \E r \in either_convert(val) : Step("either_convert", None, Plain(r, 0))

EitherSwap ==
    /\ val.k = "either"
    /\ Step("either_swap", None, Plain(either_swap(val), 0))

EitherLeft ==
    /\ val.k = "either"
    /\ \E r \in either_left_read(val) : Step("left", None, Plain(r, 0))

EitherRight ==
    /\ val.k = "either"
    /\ \E r \in either_right_read(val) : Step("right", None, Plain(r, 0))

EitherLeftOr ==
    /\ val.k = "either" /\ IsIntSide(val.left)
    /\ \E d \in Vals : Step("left_or", IntV(d), Plain(left_or(val, IntV(d)), 0))

EitherRightOr ==
    /\ val.k = "either" /\ IsIntSide(val.right)
    /\ \E d \in Vals : Step("right_or", IntV(d), Plain(right_or(val, IntV(d)), 0))

EitherLeftOrEval ==
    /\ val.k = "either" /\ IsIntSide(val.left)
    /\ \E d \in Vals :
           LET a == left_or_eval(val, IntV(d))
           IN Step("left_or_eval", IntV(d), Plain(a.res, a.nf))

EitherRightOrEval ==
    /\ val.k = "either" /\ IsIntSide(val.right)
    /\ \E d \in Vals :
           LET a == right_or_eval(val, IntV(d))
           IN Step("right_or_eval", IntV(d), Plain(a.res, a.nf))

(* e | drop_right{} *)
EitherDropRight ==
    /\ val.k = "either"
    /\ \E r \in drop_right(val) : Step("drop_right", None, Plain(r, 1))

(* e | drop_left{} *)
EitherDropLeft ==
    /\ val.k = "either"
    /\ \E r \in drop_left(val) : Step("drop_left", None, Plain(r, 1))

MaybeAnd ==
    /\ val.k = "maybe"
    /\ \E c \in Stages : Step("maybe_and", c, maybe_and(val, c))

MaybePipe ==
    /\ val.k = "maybe"
    /\ \E c \in Stages : Step("maybe_pipe", c, maybe_pipe(val, c))

MaybeDeref ==
    /\ val.k = "maybe"
    /\ \E r \in maybe_deref(val) : Step("maybe_deref", None, Plain(r, 0))

MaybeOrMaybe ==
    /\ val.k = "maybe" /\ val.val.val.k = "int"
    /\ \E other \in {maybe_empty(IntV(0))} \cup {maybe_of(IntV(v)) : v \in Vals} :
           Step("maybe_or_maybe", other, Plain(maybe_or_maybe(val, other), 0))

MaybeOrValue ==
    /\ val.k = "maybe" /\ val.val.val.k = "int"
    /\ \E d \in Vals : Step("maybe_or_value", IntV(d), Plain(maybe_or_value(val, IntV(d)), 0))

MaybeOrEval ==
    /\ val.k = "maybe" /\ val.val.val.k = "int"
    /\ \E d \in Vals :
           LET a == maybe_or_eval(val, IntV(d))
           IN Step("maybe_or_eval", IntV(d), Plain(a.res, a.nf))

JustPipe ==
    /\ val.k = "just"
    /\ \E c \in Stages : Step("just_pipe", c, just_pipe(val, c))

JustDeref ==
    /\ val.k = "just"
    /\ Step("just_deref", None, Plain(just_deref(val), 0))

(* just{v} | f | g against just{v} | (continue_left{f} | g) *)
LawJustCompose ==
    /\ val.k = "just"
    /\ n = 0
    /\ \E f \in Prims, g \in Prims :
        \E first \in {Pipe(val, f)}, composed \in {Compose(continue_left(f), g)} :
            \E lhs \in {Pipe(first, g)}, rhs \in {Pipe(val, composed)} :
                /\ lhs # Mismatch /\ rhs # Mismatch
                /\ val' = lhs
                /\ last' = Law("law_just_compose", val, <<f, g>>, lhs, rhs)
                /\ n' = MaxSteps

(* e | (c1 | c2) against e | c1 | c2 *)
LawCompose ==
    /\ val.k = "either"
    /\ n < 2
    /\ \E c1 \in BaseConts, c2 \in BaseConts :
        \E first \in {Pipe(val, c1)}, composed \in {Compose(c1, c2)} :
            \E lhs \in {Pipe(val, composed)}, rhs \in {Pipe(first, c2)} :
                /\ lhs # Mismatch /\ rhs # Mismatch
                /\ val' = lhs
                /\ last' = Law("law_compose", val, <<c1, c2>>, lhs, rhs)
                /\ n' = MaxSteps

AssocConts ==
    {continue_either(Prim(l), Prim(r)) : l \in {"identity", "inc"}, r \in {"identity", "dbl"}}
        \cup {continue_left(Prim("inc")), continue_right(Prim("dbl"))}

(* e | ((c1 | c2) | c3) against e | (c1 | (c2 | c3)) *)
LawAssoc ==
    /\ val.k = "either"
    /\ n < 2
    /\ \E c1 \in AssocConts, c2 \in AssocConts, c3 \in AssocConts :
        \E c12 \in {Compose(c1, c2)}, c23 \in {Compose(c2, c3)} :
            \E l \in {Compose(c12, c3)}, r \in {Compose(c1, c23)} :
                \E lhs \in {Pipe(val, l)}, rhs \in {Pipe(val, r)} :
                    /\ lhs # Mismatch /\ rhs # Mismatch
                    /\ val' = lhs
                    /\ last' = Law("law_assoc", val, <<c1, c2, c3>>, lhs, rhs)
                    /\ n' = MaxSteps

(* applying a continuation to an either (operator|) or to a maybe (operator&&) *)
ApplyCont(x, c) == IF x.k = "either" THEN either_pipe(x, c) ELSE maybe_and(x, c)

(* x | (c | g) for a bare function g, against x | c *)
LawComposeFunc ==
    /\ val.k \in {"either", "maybe"}
    /\ n < 2
    /\ \E c \in BaseConts, g \in Prims :
        \E composed \in {Compose(c, g)} :
            \E lhs \in {ApplyCont(val, composed)}, rhs \in {ApplyCont(val, c)} :
                /\ lhs.res # Mismatch /\ rhs.res # Mismatch
                /\ val' = lhs.res
                /\ last' = [op |-> "law_compose_func", in |-> val, arg |-> <<c, g>>,
                            out |-> lhs.res, alt |-> rhs, nf |-> 0,
                            nl |-> lhs.nl, nr |-> lhs.nr, rarg |-> lhs.rarg]
                /\ n' = MaxSteps

Next ==
    \/ MakeJust
    \/ MakeMaybe
    \/ MakeEmpty
    \/ MakeLeft
    \/ MakeRight
    \/ EitherPipe
    \/ EitherConvert
    \/ EitherSwap
    \/ EitherLeft
    \/ EitherRight
    \/ EitherLeftOr
    \/ EitherRightOr
    \/ EitherLeftOrEval
    \/ EitherRightOrEval
    \/ EitherDropRight
    \/ EitherDropLeft
    \/ MaybeAnd
    \/ MaybePipe
    \/ MaybeDeref
    \/ MaybeOrMaybe
    \/ MaybeOrValue
    \/ MaybeOrEval
    \/ JustPipe
    \/ JustDeref
    \/ LawJustCompose
    \/ LawCompose
    \/ LawAssoc
    \/ LawComposeFunc

Spec == Init /\ [][Next]_vars

TypeOK == n \in 0..MaxSteps

(* ------------------------------ properties ---------------------------- *)

ChainOps == {"either_pipe", "just_pipe", "maybe_pipe", "maybe_and"}

Present(x) ==
    CASE x.k = "maybe" -> maybe_bool(x)
      [] x.k = "just" -> TRUE
      [] OTHER -> FALSE

(* C1: every either value an operation produces holds exactly one side:     *)
(* has_left() XOR has_right(), after any sequence of constructions,         *)
(* conversions, swaps and continuation applications.                        *)
C1_ExactlyOneSide == val.k = "either" => (has_left(val) # has_right(val))

(* C2: one application of a continuation through a chaining operator calls  *)
(* exactly one of its two functions exactly once: left for a left-holding   *)
(* either, a present maybe or a just; right for a right-holding either or   *)
(* an absent maybe, which hands right the nullptr sentinel.                 *)
C2_ExactlyOneInvoked ==
    (last.op \in ChainOps /\ last.arg.t = "cont" /\ IsValue(last.out)) =>
        IF (last.in.k = "either" /\ has_left(last.in)) \/ Present(last.in)
        THEN last.nl = 1 /\ last.nr = 0
        ELSE /\ last.nl = 0
             /\ last.nr = 1
             /\ (last.in.k = "maybe" => last.rarg = Null)

(* C3: a continuation applied to an either holding left v yields an either  *)
(* holding left(v) on the left and nothing on the right; applied to an      *)
(* either holding right w it yields right(w) on the right and nothing on    *)
(* the left; the held side does not change.                                 *)
C3_ContinuationOnEither ==
    (last.op = "either_pipe" /\ last.arg.t = "cont" /\ IsValue(last.out)) =>
        /\ has_left(last.in) =>
               /\ last.out.left = optional(Call(last.arg.left, last.in.left.val))
               /\ ~has_right(last.out)
        /\ has_right(last.in) =>
               /\ last.out.right = optional(Call(last.arg.right, last.in.right.val))
               /\ ~has_left(last.out)

(* C4: just{v} | f | g yields the same container and value as               *)
(* just{v} | (continue_left{f} | g), for every v, f and g.                  *)
C4_JustComposeLaw == last.op = "law_just_compose" => last.out = last.alt

(* C5: (c1 | c2)(e) equals c2(c1(e)) for every either e, composition is     *)
(* associative, and continue_either{identity, identity} is a left and a     *)
(* right unit.                                                              *)
C5_ComposeLaw ==
    /\ last.op \in {"law_compose", "law_assoc"} => last.out = last.alt
    /\ last.op = "law_compose" =>
           \A i \in 1..2 :
               last.arg[i] = continue_either(Prim("identity"), Prim("identity")) =>
                   last.out = Pipe(last.in, last.arg[3 - i])

(* C6: chaining a function f onto a just or a present maybe holding v       *)
(* computes r = f(v) exactly once and yields r itself when r is an either,  *)
(* a maybe or a just, and r wrapped in the kind of the input otherwise.     *)
C6_FlattenOrWrap ==
    (/\ last.op \in {"just_pipe", "maybe_pipe", "maybe_and"}
     /\ last.arg.t = "prim"
     /\ Present(last.in)) =>
        LET v == IF last.in.k = "just" THEN last.in.val ELSE last.in.val.val
            r == Call(last.arg, v)
        IN  /\ last.nf = 1
            /\ last.out = IF is_monadic_v(r) THEN r
                          ELSE IF last.in.k = "just" THEN just_of(r) ELSE maybe_of(r)

(* C7: chaining from an absent maybe never calls the transformation (a bare *)
(* function, or the left function of a continuation) and yields an absent   *)
(* maybe, whatever the transformation returns.                              *)
C7_AbsentShortCircuit ==
    (/\ last.op \in {"maybe_pipe", "maybe_and"}
     /\ ~maybe_bool(last.in)) =>
        /\ IF last.arg.t = "cont" THEN last.nl = 0 ELSE last.nf = 0
        /\ last.out.k = "maybe"
        /\ ~maybe_bool(last.out)

(* C8: m || x returns the value of m (m itself when x is a maybe) when m is *)
(* present, without evaluating a thunk x; when m is absent it returns the   *)
(* default x, the other maybe x unchanged, or the result of evaluating the  *)
(* thunk x exactly once.                                                    *)
C8_OrCombine ==
    /\ last.op = "maybe_or_value" =>
           last.out = IF maybe_bool(last.in) THEN last.in.val.val ELSE last.arg
    /\ last.op = "maybe_or_maybe" =>
           last.out = IF maybe_bool(last.in) THEN last.in ELSE last.arg
    /\ last.op = "maybe_or_eval" =>
           IF maybe_bool(last.in)
           THEN last.out = last.in.val.val /\ last.nf = 0
           ELSE last.out = last.arg /\ last.nf = 1

C8_Witness ==
    /\ last.op = "maybe_or_eval"
    /\ maybe_bool(last.in)
    /\ last.out = last.in.val.val
    /\ last.out # last.arg
    /\ last.nf = 0

(* C9: left_or, right_or, left_or_eval and right_or_eval return the         *)
(* contained value of their side when it is present and the default, or     *)
(* the thunk's result, when it is absent; the thunk is evaluated once when  *)
(* the side is absent and not at all when it is present.                    *)
C9_FallbackAccessors ==
    /\ last.op \in {"left_or", "left_or_eval"} =>
           last.out = IF has_left(last.in) THEN last.in.left.val ELSE last.arg
    /\ last.op \in {"right_or", "right_or_eval"} =>
           last.out = IF has_right(last.in) THEN last.in.right.val ELSE last.arg
    /\ last.op = "left_or_eval" => last.nf = IF has_left(last.in) THEN 0 ELSE 1
    /\ last.op = "right_or_eval" => last.nf = IF has_right(last.in) THEN 0 ELSE 1

(* C10: left() on an either without a left value, right() on an either      *)
(* without a right value and * on an absent maybe always end in the         *)
(* EmptyAccess failure and return no value; reading a present side, a       *)
(* present maybe or a just never fails.                                     *)
C10_EmptyAccess ==
    /\ last.op = "left" => (last.out = Abort <=> ~has_left(last.in))
    /\ last.op = "right" => (last.out = Abort <=> ~has_right(last.in))
    /\ last.op = "maybe_deref" => (last.out = Abort <=> ~maybe_bool(last.in))
    /\ last.op = "just_deref" => last.out # Abort

(* C11: swap() on an either returns a new either in which the held value    *)
(* has moved to the opposite side, and swapping twice gives back an either  *)
(* holding the same side and the same value.                                *)
C11_SwapInvolution ==
    last.op = "either_swap" =>
        /\ last.out.k = "either"
        /\ last.out.left = last.in.right
        /\ last.out.right = last.in.left
        /\ either_swap(last.out) = last.in

(* C12: c | g for a bare function g has left = g after c.left and right =   *)
(* c.right: on a right-holding either or an absent maybe it yields what c   *)
(* alone yields, calls right as c alone does and never calls g; on a        *)
(* left-holding either holding v it yields left g(c.left(v)).               *)
C12_ComposeFuncLeftOnly ==
    last.op = "law_compose_func" =>
        LET c == last.arg[1]
            g == last.arg[2]
        IN  /\ (last.in.k = "either" /\ has_right(last.in) /\ ~has_left(last.in)) =>
                   /\ last.out.k = "either"
                   /\ last.out.right = last.alt.res.right
                   /\ ~has_left(last.out)
                   /\ last.nl = 0
                   /\ last.nr = last.alt.nr
            /\ (last.in.k = "maybe" /\ ~maybe_bool(last.in)) =>
                   /\ last.out.k = "maybe"
                   /\ ~maybe_bool(last.out)
                   /\ last.nl = 0
                   /\ last.nr = last.alt.nr
            /\ (last.in.k = "either" /\ has_left(last.in) /\ ~has_right(last.in)) =>
                   /\ last.out.k = "either"
                   /\ last.out.left = optional(Call(g, Call(c.left, last.in.left.val)))
                   /\ ~has_right(last.out)

(* C13: drop_right yields a present maybe holding the left value unchanged  *)
(* when the either holds left and an absent maybe when it holds right;      *)
(* drop_left is symmetric; neither reads the absent side.                   *)
C13_DropSide ==
    /\ last.op = "drop_right" =>
           /\ last.out.k = "maybe"
           /\ has_left(last.in) => last.out = maybe_of(last.in.left.val)
           /\ has_right(last.in) => ~maybe_bool(last.out)
    /\ last.op = "drop_left" =>
           /\ last.out.k = "maybe"
           /\ has_right(last.in) => last.out = maybe_of(last.in.right.val)
           /\ has_left(last.in) => ~maybe_bool(last.out)

(* C14: check(predicate) as a chain stage evaluates the predicate once per  *)
(* call and returns a present maybe holding its input x unchanged when      *)
(* predicate(x) holds and an absent maybe otherwise; chained onto an absent *)
(* maybe it is not called and the result is absent.                         *)
C14_CheckStage ==
    (/\ last.op \in {"just_pipe", "maybe_pipe", "maybe_and"}
     /\ last.arg = Prim("check10")) =>
        IF Present(last.in)
        THEN LET x == IF last.in.k = "just" THEN last.in.val ELSE last.in.val.val
             IN  /\ last.nf = 1
                 /\ last.out.k = "maybe"
                 /\ maybe_bool(last.out) <=> ToInt(x) > 10
                 /\ maybe_bool(last.out) => last.out.val.val = x
        ELSE /\ last.nf = 0
             /\ last.out.k = "maybe"
             /\ ~maybe_bool(last.out)

C14_Witness ==
    /\ last.op = "maybe_and"
    /\ last.arg = Prim("check10")
    /\ last.in = maybe_of(IntV(10))
    /\ last.out = maybe_empty(IntV(0))
    /\ last.nf = 1

====
